---- MODULE Spec2Model ----
(***************************************************************************)
(* Delivery pipeline of the RCS bulk messaging system: the Message         *)
(* aggregate (apps/core/domain/message.py), the message repository's       *)
(* row <-> aggregate conversions, the Gupshup adapter's mapping of HTTP    *)
(* outcomes, the delivery service, and the dispatcher, webhook and         *)
(* fallback workers.                                                       *)
(***************************************************************************)
EXTENDS Integers, Sequences, FiniteSets, TLC

\* ---------------------------------------------------------------- bounds
NumMessages == 1          \* message ids 1..NumMessages
MaxNow == 1               \* the clock runs 0..MaxNow
MaxRedeliver == 1         \* jobs redelivered because the ack was lost
MaxStat == 1              \* cap on the unbounded messages_read counter
MaxRecipientCount == 1    \* cap on the recipients added to a draft campaign
MaxCrash == 1             \* orchestrator handler runs that end in an exception
NumJobs == 2              \* broker jobs 1..NumJobs
MaxJobRetries == 2        \* jobs are enqueued with max_retries in 0..MaxJobRetries
MaxDeliveries == 4        \* cap on the deliveries of one job
NumWorkers == 2           \* dispatcher worker processes 1..NumWorkers
NumAudiences == 2         \* audience segments that can be attached
\* queue adapters, one per process that connects to the broker
NumAdapters == 2
MaxBatch == 2              \* jobs in one enqueue_batch call
MaxQueued == 3             \* cap on the copies of one job in a queue
MaxRetryInput == 1         \* retry_count and max_retries of a drawn message: 0..MaxRetryInput
MaxExtra == 1              \* cap on the further Message rows of one recipient

\* ------------------------------------------------------- program constants
DefaultMaxRetries == 3    \* Message.__init__: self.max_retries = 3
DefaultRetryAfter == 60   \* delay=e.retry_after or 60
DayLen == 1               \* ticks per day; expires_at is the end of the creation day

MsgIds == 1..NumMessages
NoId == <<0, 0>>          \* external_id None

Statuses == {"pending", "queued", "sent", "delivered", "read", "failed",
             "fallback_sent", "fallback_delivered", "expired"}
Channels == {"rcs", "sms"}
NoReason == "none"
FailureReasons == {"invalid_number", "rcs_not_supported", "network_error",
                   "rate_limited", "blocked", "expired", "unknown"}
ErrorCodes == {"INVALID_NUMBER", "BLOCKED"}
RetryAfterValues == {30}

NoMessage == [status |-> "absent"]

\* ------------------------------------------------------ Message aggregate
\* expires_at = created_at.replace(hour=23, minute=59)
ExpiresAt(created_at) == (created_at \div DayLen) * DayLen + (DayLen - 1)

Priorities == {"low", "medium", "high", "urgent"}

\* Message.create / Message.__init__ with the priority given
MessageCreateWith(created_at, priority) ==
  [status |-> "pending", channel |-> "rcs", priority |-> priority, retry_count |-> 0,
   max_retries |-> DefaultMaxRetries, fallback_enabled |-> TRUE,
   fallback_triggered |-> FALSE, external_id |-> NoId,
   failure_reason |-> NoReason, expires_at |-> ExpiresAt(created_at)]

\* Message.create with priority left at its default
MessageCreate(created_at) == MessageCreateWith(created_at, "medium")

is_expired(m, now) == now > m.expires_at

\* Message.queue: [raised, msg]
msg_queue(m) ==
  IF m.status # "pending" THEN [raised |-> TRUE, msg |-> m]
  ELSE [raised |-> FALSE, msg |-> [m EXCEPT !.status = "queued"]]

mark_sent(m, external_id) ==
  [m EXCEPT !.status = "sent", !.external_id = external_id]

mark_delivered(m) ==
  IF m.status \notin {"sent", "queued"} THEN [raised |-> TRUE, msg |-> m]
  ELSE [raised |-> FALSE, msg |-> [m EXCEPT !.status = "delivered"]]

\* mark_read that applies the status check to SMS messages too
mark_read_NoChannelCheck(m) ==
  IF m.status # "delivered" THEN [raised |-> TRUE, msg |-> m]
  ELSE [raised |-> FALSE, msg |-> [m EXCEPT !.status = "read"]]

mark_read(m) ==
  IF m.channel # "rcs" THEN [raised |-> FALSE, msg |-> m]
  ELSE IF m.status # "delivered" THEN [raised |-> TRUE, msg |-> m]
  ELSE [raised |-> FALSE, msg |-> [m EXCEPT !.status = "read"]]

mark_failed(m, reason) ==
  [m EXCEPT !.status = "failed", !.failure_reason = reason]

\* should_retry without the retry limit
should_retry_NoLimit(m, now) ==
  IF m.status # "failed" THEN FALSE
  ELSE IF now > m.expires_at THEN FALSE
  ELSE IF m.failure_reason \in {"invalid_number", "blocked"} THEN FALSE
  ELSE TRUE

should_retry(m, now) ==
  IF m.status # "failed" THEN FALSE
  ELSE IF m.retry_count >= m.max_retries THEN FALSE
  ELSE IF now > m.expires_at THEN FALSE
  ELSE IF m.failure_reason \in {"invalid_number", "blocked"} THEN FALSE
  ELSE TRUE

\* should_fallback_to_sms that waits for the retries on RCS_NOT_SUPPORTED too
should_fallback_to_sms_RetriesOnly(m) ==
  IF ~m.fallback_enabled THEN FALSE
  ELSE IF m.fallback_triggered THEN FALSE
  ELSE IF m.channel = "sms" THEN FALSE
  ELSE IF m.retry_count >= m.max_retries THEN TRUE
  ELSE FALSE

should_fallback_to_sms(m) ==
  IF ~m.fallback_enabled THEN FALSE
  ELSE IF m.fallback_triggered THEN FALSE
  ELSE IF m.channel = "sms" THEN FALSE
  ELSE IF m.failure_reason = "rcs_not_supported" THEN TRUE
  ELSE IF m.retry_count >= m.max_retries THEN TRUE
  ELSE FALSE

\* Message.trigger_fallback: [raised, msg]
trigger_fallback(m) ==
  IF ~should_fallback_to_sms(m) THEN [raised |-> TRUE, msg |-> m]
  ELSE [raised |-> FALSE,
        msg |-> [m EXCEPT !.channel = "sms", !.status = "pending",
                          !.fallback_triggered = TRUE, !.retry_count = 0]]

\* the second definition of mark_fallback_sent (the one Python keeps)
mark_fallback_sent(m, external_id) ==
  [m EXCEPT !.status = "fallback_sent", !.fallback_triggered = TRUE,
            !.channel = "sms", !.external_id = external_id]

increment_retry(m) == [m EXCEPT !.retry_count = m.retry_count + 1]

\* ----------------------------------------------------- message repository
\* _to_domain that leaves the channel at the constructor's default
to_domain_DefaultChannel(model) ==
  [status |-> model.status, channel |-> "rcs", priority |-> model.priority,
   retry_count |-> model.retry_count, max_retries |-> model.max_retries,
   fallback_enabled |-> model.fallback_enabled,
   fallback_triggered |-> model.fallback_triggered,
   external_id |-> model.external_id,
   failure_reason |-> model.failure_reason,
   expires_at |-> model.expires_at]

\* SQLAlchemyMessageRepository._to_domain
to_domain(model) ==
  [status |-> model.status, channel |-> model.channel, priority |-> model.priority,
   retry_count |-> model.retry_count, max_retries |-> model.max_retries,
   fallback_enabled |-> model.fallback_enabled,
   fallback_triggered |-> model.fallback_triggered,
   external_id |-> model.external_id,
   failure_reason |-> model.failure_reason,
   expires_at |-> model.expires_at]

\* _update_from_domain that does not write fallback_triggered back
update_from_domain_NoFallbackFlag(model, message) ==
  [model EXCEPT !.status = message.status, !.channel = message.channel,
                !.retry_count = message.retry_count,
                !.external_id = message.external_id,
                !.failure_reason = message.failure_reason]

\* SQLAlchemyMessageRepository._update_from_domain: max_retries,
\* fallback_enabled and expires_at are not written back
update_from_domain(model, message) ==
  [model EXCEPT !.status = message.status, !.channel = message.channel,
                !.retry_count = message.retry_count,
                !.fallback_triggered = message.fallback_triggered,
                !.external_id = message.external_id,
                !.failure_reason = message.failure_reason]

\* ------------------------------------------------------- Gupshup adapter
\* what the HTTP exchange with the vendor can produce
HttpOutcomes ==
  {[type |-> "submitted", error_code |-> "none", retry_after |-> 0],
   [type |-> "network", error_code |-> "none", retry_after |-> 0]}
  \cup {[type |-> "rejected", error_code |-> e, retry_after |-> 0] : e \in ErrorCodes}
  \cup {[type |-> "429", error_code |-> "none", retry_after |-> d] : d \in RetryAfterValues}

\* GupshupAdapter.send_rcs_message / send_sms_message: the RateLimitException
\* raised on 429 is raised inside the try block and caught by its own
\* `except Exception`, which re-raises it as a plain AggregatorException
GupshupSend(http) ==
  CASE http.type = "submitted" ->
         [exc |-> "none", success |-> TRUE, error_code |-> "none", retry_after |-> 0]
    [] http.type = "rejected" ->
         [exc |-> "none", success |-> FALSE, error_code |-> http.error_code, retry_after |-> 0]
    [] http.type = "429" ->
         [exc |-> "AggregatorException", success |-> FALSE, error_code |-> "none", retry_after |-> 0]
    [] OTHER ->
         [exc |-> "AggregatorException", success |-> FALSE, error_code |-> "none", retry_after |-> 0]

\* ------------------------------------------------------------ queue port
Delays == {0, DefaultRetryAfter} \cup RetryAfterValues
Jobs == [message_id : MsgIds, delay : Delays]

\* RabbitMQAdapter.schedule: a time that is not in the future means no delay
schedule_delay(scheduled_for, now) ==
  IF scheduled_for <= now THEN 0 ELSE scheduled_for - now

\* ------------------------------------------------------ delivery service
\* the outcome of one service call on one message
Res(m, delays, sent, send_invoked, retried, triggered) ==
  [message |-> m, delays |-> delays, sent |-> sent,
   send_invoked |-> send_invoked, retried |-> retried, triggered |-> triggered,
   request_channel |-> "none"]

\* DeliveryService._queue_fallback; only called where trigger_fallback succeeds
\* or inside the try block of process_message_delivery
queue_fallback(m) ==
  Res(trigger_fallback(m).msg, <<0>>, 0, FALSE, FALSE, TRUE)

\* DeliveryService._requeue_with_delay: scheduled_for=datetime.utcnow()
requeue_with_delay(m, delay, now) ==
  Res(m, <<schedule_delay(now, now)>>, 0, TRUE, FALSE, FALSE)

\* _handle_delivery_failure that requeues a retry without counting it
handle_delivery_failure_NoIncrement(m, now, send_invoked) ==
  LET f == mark_failed(m, "network_error") IN
  IF should_retry(f, now)
    THEN Res(f, <<0>>, 0, send_invoked, TRUE, FALSE)
  ELSE IF should_fallback_to_sms(f)
    THEN [queue_fallback(f) EXCEPT !.send_invoked = send_invoked]
  ELSE Res(f, <<>>, 0, send_invoked, FALSE, FALSE)

\* DeliveryService._handle_delivery_failure
handle_delivery_failure(m, now, send_invoked) ==
  LET f == mark_failed(m, "network_error") IN
  IF should_retry(f, now)
    THEN Res(increment_retry(f), <<0>>, 0, send_invoked, TRUE, FALSE)
  ELSE IF should_fallback_to_sms(f)
    THEN [queue_fallback(f) EXCEPT !.send_invoked = send_invoked]
  ELSE Res(f, <<>>, 0, send_invoked, FALSE, FALSE)

\* DeliveryService._send_via_aggregator and the except clauses around it
send_via_aggregator(m, http, ext, now) ==
  LET r == GupshupSend(http) IN
  [request_channel |-> m.channel] @@
  IF r.exc = "RateLimitException"
    THEN requeue_with_delay(m, IF r.retry_after # 0 THEN r.retry_after
                                                    ELSE DefaultRetryAfter, now)
  ELSE IF r.exc = "AggregatorException" THEN handle_delivery_failure(m, now, TRUE)
  ELSE IF r.success THEN Res(mark_sent(m, ext), <<>>, 1, TRUE, FALSE, FALSE)
  ELSE handle_delivery_failure(m, now, TRUE)

\* DeliveryService.process_message_delivery for a message that exists
process_message_delivery(model, capable, http, ext, now) ==
  LET message == to_domain(model) IN
  IF message.channel = "rcs" /\ ~capable
    THEN LET f == mark_failed(message, "rcs_not_supported") IN
         IF trigger_fallback(f).raised
           THEN handle_delivery_failure(f, now, FALSE)
           ELSE queue_fallback(f)
  ELSE LET q == msg_queue(message) IN
       IF q.raised THEN handle_delivery_failure(message, now, FALSE)
       ELSE send_via_aggregator(q.msg, http, ext, now)

\* DeliveryService.handle_delivery_status_update for a message that was found:
\* raised means the exception leaves the handler and the transaction rolls back
handle_delivery_status_update(model, status) ==
  LET message == to_domain(model) IN
  CASE status = "delivered" ->
         LET d == mark_delivered(message) IN
         [raised |-> d.raised, res |-> Res(d.msg, <<>>, 0, FALSE, FALSE, FALSE),
          stat |-> "messages_delivered"]
    [] status = "read" ->
         LET d == mark_read(message) IN
         [raised |-> d.raised, res |-> Res(d.msg, <<>>, 0, FALSE, FALSE, FALSE),
          stat |-> "messages_read"]
    [] status = "failed" ->
         LET f == mark_failed(message, "network_error") IN
         [raised |-> FALSE,
          res |-> IF should_fallback_to_sms(f) THEN queue_fallback(f)
                  ELSE Res(f, <<>>, 0, FALSE, FALSE, FALSE),
          stat |-> "none"]
    [] OTHER ->
         [raised |-> FALSE, res |-> Res(message, <<>>, 0, FALSE, FALSE, FALSE),
          stat |-> "none"]

\* ------------------------------------------------------ Campaign aggregate
CampaignStatuses == {"draft", "scheduled", "active", "paused", "completed",
                     "cancelled", "failed"}
NoTime == -1              \* scheduled_for None

\* Campaign.create: a DRAFT campaign with the campaign.created event pending
\* CampaignStats(): every counter starts at 0
CampaignStats ==
  [messages_sent |-> 0, messages_delivered |-> 0, messages_read |-> 0,
   messages_failed |-> 0, fallback_triggered |-> 0]

\* Campaign.create with the priority given; enable_fallback starts True
CampaignCreateWith(priority) ==
  [status |-> "draft", priority |-> priority, recipient_count |-> 0,
   scheduled_for |-> NoTime, enable_fallback |-> TRUE,
   cancellation_reason |-> FALSE, audience_ids |-> <<>>, stats |-> CampaignStats,
   events |-> 1]

\* Campaign.create with priority left at its default
CampaignCreate == CampaignCreateWith("medium")

\* Campaign._ensure_status: TRUE when it raises InvalidStateTransition
ensure_status(c, expected_status) == c.status # expected_status

\* the state-changing methods of Campaign: [raised, c]
\* schedule without the check that the time is in the future
schedule_NoTimeCheck(c, scheduled_for, now) ==
  IF ensure_status(c, "draft") THEN [raised |-> TRUE, c |-> c]
  ELSE [raised |-> FALSE,
        c |-> [c EXCEPT !.scheduled_for = scheduled_for, !.status = "scheduled",
                        !.events = @ + 1]]

schedule(c, scheduled_for, now) ==
  IF ensure_status(c, "draft") THEN [raised |-> TRUE, c |-> c]
  ELSE IF scheduled_for <= now THEN [raised |-> TRUE, c |-> c]
  ELSE [raised |-> FALSE,
        c |-> [c EXCEPT !.scheduled_for = scheduled_for, !.status = "scheduled",
                        !.events = @ + 1]]

\* activate without the check of the recipient count
activate_NoRecipientCheck(c) ==
  IF c.status \notin {"draft", "scheduled"} THEN [raised |-> TRUE, c |-> c]
  ELSE [raised |-> FALSE, c |-> [c EXCEPT !.status = "active", !.events = @ + 1]]

activate(c) ==
  IF c.status \notin {"draft", "scheduled"} THEN [raised |-> TRUE, c |-> c]
  ELSE IF c.recipient_count = 0 THEN [raised |-> TRUE, c |-> c]
  ELSE [raised |-> FALSE, c |-> [c EXCEPT !.status = "active", !.events = @ + 1]]

pause(c) ==
  IF ensure_status(c, "active") THEN [raised |-> TRUE, c |-> c]
  ELSE [raised |-> FALSE, c |-> [c EXCEPT !.status = "paused", !.events = @ + 1]]

resume(c) ==
  IF ensure_status(c, "paused") THEN [raised |-> TRUE, c |-> c]
  ELSE [raised |-> FALSE, c |-> [c EXCEPT !.status = "active", !.events = @ + 1]]

complete(c) ==
  IF c.status \notin {"active", "paused"} THEN [raised |-> TRUE, c |-> c]
  ELSE [raised |-> FALSE, c |-> [c EXCEPT !.status = "completed", !.events = @ + 1]]

\* cancel without the check of the current status
cancel_Unchecked(c) ==
  [raised |-> FALSE,
   c |-> [c EXCEPT !.status = "cancelled", !.cancellation_reason = TRUE,
                   !.events = @ + 1]]

cancel(c) ==
  IF c.status \in {"completed", "cancelled"} THEN [raised |-> TRUE, c |-> c]
  ELSE [raised |-> FALSE,
        c |-> [c EXCEPT !.status = "cancelled", !.cancellation_reason = TRUE,
                        !.events = @ + 1]]

add_audience(c, audience_id, recipient_count) ==
  IF c.status # "draft" THEN [raised |-> TRUE, c |-> c]
  ELSE IF \E i \in 1..Len(c.audience_ids) : c.audience_ids[i] = audience_id
    THEN [raised |-> FALSE, c |-> c]
  ELSE [raised |-> FALSE,
        c |-> [c EXCEPT !.audience_ids = Append(@, audience_id),
                        !.recipient_count = @ + recipient_count]]

\* Campaign.collect_events
collect_events(c) == [c EXCEPT !.events = 0]

\* CampaignService._publish_events: one save_event per collected event
publish_events_Twice(c) == 2 * c.events
publish_events(c) == c.events

\* ---------------------------------------------------- campaign repository
\* SQLAlchemyCampaignRepository._to_domain: a fresh aggregate, no pending events;
\* the campaigns table has no column for audience_ids, which start empty
campaign_to_domain(model) ==
  [status |-> model.status, priority |-> model.priority,
   recipient_count |-> model.recipient_count,
   scheduled_for |-> model.scheduled_for, enable_fallback |-> model.enable_fallback,
   cancellation_reason |-> model.cancellation_reason, audience_ids |-> <<>>,
   stats |-> model.stats, events |-> 0]

\* SQLAlchemyCampaignRepository._update_from_domain followed by the flush:
\* every column is assigned on the session's copy of the row (loaded), and the
\* UPDATE carries the columns whose value differs from that copy
\* an UPDATE that carries every column, changed or not
campaign_update_from_domain_AllColumns(row, loaded, c) ==
  [status |-> c.status, priority |-> c.priority,
   recipient_count |-> c.recipient_count, scheduled_for |-> c.scheduled_for,
   enable_fallback |-> c.enable_fallback,
   cancellation_reason |-> c.cancellation_reason, stats |-> c.stats]

campaign_update_from_domain(row, loaded, c) ==
  [status |-> IF c.status # loaded.status THEN c.status ELSE row.status,
   priority |-> IF c.priority # loaded.priority THEN c.priority ELSE row.priority,
   enable_fallback |-> IF c.enable_fallback # loaded.enable_fallback
                         THEN c.enable_fallback ELSE row.enable_fallback,
   recipient_count |-> IF c.recipient_count # loaded.recipient_count
                         THEN c.recipient_count ELSE row.recipient_count,
   scheduled_for |-> IF c.scheduled_for # loaded.scheduled_for
                       THEN c.scheduled_for ELSE row.scheduled_for,
   cancellation_reason |-> IF c.cancellation_reason # loaded.cancellation_reason
                             THEN c.cancellation_reason ELSE row.cancellation_reason,
   stats |-> [k \in DOMAIN row.stats |->
                IF c.stats[k] # loaded.stats[k] THEN c.stats[k] ELSE row.stats[k]]]

\* the row a session holds after flushing aggregate c
campaign_row(c) ==
  [status |-> c.status, priority |-> c.priority,
   recipient_count |-> c.recipient_count, scheduled_for |-> c.scheduled_for,
   enable_fallback |-> c.enable_fallback,
   cancellation_reason |-> c.cancellation_reason, stats |-> c.stats]

\* the columns of a campaigns row other than the counters
campaign_columns(model) == [k \in DOMAIN model \ {"stats"} |-> model[k]]

\* a message is sent from PENDING only (once on RCS, once on SMS) and at most
\* once more by the fallback worker
MaxSendsPerMessage == 3

\* ------------------------------------------------------------------ state
VARIABLES
  messages,        \* the messages table: id -> row, or NoMessage
  queue,           \* the message-dispatch queue: job -> number of copies
  now,             \* the clock
  sends,           \* per message, how many vendor ids the aggregator has issued
  requests,        \* per message, the send requests the aggregator has received
  stats,           \* the campaign's counters
  fb,              \* the fallback worker: idle, or between its two commits
  redelivered,     \* jobs delivered again because their ack was lost
  fallback_count,  \* history: committed trigger_fallback calls per message
  campaign,        \* the campaign's row in the campaigns table
  orch,            \* the campaign orchestrator: idle, or inside a job
  orch_jobs,       \* the campaign.orchestrator queue: due time -> number of jobs
  opted_out,       \* message ids whose recipient has opted out
  crashes,         \* orchestrator handler runs that ended in an exception
  attached,        \* history: the add_audience calls that attached a new id
  bq,              \* one job of the broker and its consumer
  workers,         \* dispatcher workers inside a non-atomic handler run
  conn,            \* per queue adapter, its connection and its connect() call
  saved_events,    \* the events table: rows added by the latest committed campaign transaction
  dispatched,      \* the dispatch jobs the orchestrator published: [id, priority]
  probe,           \* a Message object outside the tables and the method applied to it
  extra            \* per recipient, the Message rows and dispatch jobs beyond its first

dvars == <<messages, queue, now, sends, requests, stats, fb, redelivered,
           fallback_count>>
cvars == <<campaign, orch, orch_jobs, opted_out, crashes, attached>>
avars == <<conn, saved_events, dispatched, probe, extra>>
xvars == <<cvars, bq, workers, avars>>
vars == <<dvars, xvars>>

\* the campaign's row of the campaigns table, counters included
CampaignModel == [stats |-> stats] @@ campaign

\* the committed UPDATE of the campaign's row
StoreCampaign(saved) ==
  /\ campaign' = campaign_columns(saved)
  /\ stats' = saved.stats

FbIdle == [pc |-> "idle", id |-> 0, msg |-> NoMessage]

\* the orchestrator between two jobs
OrchIdle == [pc |-> "idle", c |-> CampaignCreate, loaded |-> campaign_row(CampaignCreate),
             batch |-> {}, again |-> {}, enqueued |-> {}, job |-> 0]

\* the state after CampaignService.create_campaign, with no orchestration job
CampaignIdleWith(c) ==
  /\ campaign = campaign_columns(campaign_row(c))
  /\ orch = OrchIdle
  /\ orch_jobs = [t \in 0..MaxNow |-> 0]
  /\ crashes = 0
  /\ attached = {}

\* the state after CampaignService.create_campaign with default priority
CampaignIdle == CampaignIdleWith(CampaignCreate)

AudienceIds == 1..NumAudiences

JobIds == 1..NumJobs

\* a job that was never enqueued
NoJob == [loc |-> "none", retry_count |-> 0, max_retries |-> 0, via |-> "none",
          deliveries |-> 0, caller |-> "none", done |-> FALSE]

BrokerIdle == bq = [k \in JobIds |-> NoJob]

Workers == 1..NumWorkers

\* a dispatcher worker between two jobs
WIdle == [pc |-> "idle"]

WorkersIdle == workers = [w \in Workers |-> WIdle]

Adapters == 1..NumAdapters

\* RabbitMQAdapter.__init__: no connection, no channel, connect() not running
AdapterNew == [pc |-> "idle", connection |-> "none", channel |-> FALSE,
               retries |-> 0, attempts |-> 0, slept |-> <<>>]

AdaptersNew == conn = [a \in Adapters |-> AdapterNew]

\* no recipient has a second Message
NoExtra == [r \in MsgIds |-> [rows |-> 0, jobs |-> 0]]

\* no Message object under test
NoProbe == [op |-> "none", msg |-> NoMessage, at |-> 0, result |-> FALSE,
            after |-> [raised |-> FALSE, msg |-> NoMessage]]

Init ==
  /\ messages = [m \in MsgIds |-> NoMessage]
  /\ queue = [j \in Jobs |-> 0]
  /\ now = 0
  /\ sends = [m \in MsgIds |-> 0]
  /\ requests = [m \in MsgIds |-> [rcs |-> 0, sms |-> 0]]
  /\ stats = [messages_sent |-> 0, messages_delivered |-> 0, messages_read |-> 0,
              messages_failed |-> 0, fallback_triggered |-> 0]
  /\ fb = FbIdle
  /\ redelivered = 0
  /\ fallback_count = [m \in MsgIds |-> 0]
  /\ CampaignIdle /\ opted_out = {}
  /\ BrokerIdle
  /\ WorkersIdle
  /\ AdaptersNew
  /\ saved_events = publish_events(CampaignCreate)
  /\ dispatched = {}
  /\ probe = NoProbe
  /\ extra = NoExtra

\* QueuePort.enqueue of one dispatch job per element of delays
Enqueue(q, m, delays) ==
  [j \in Jobs |->
     q[j] + Cardinality({i \in 1..Len(delays) : j = [message_id |-> m, delay |-> delays[i]]})]

\* the time passes
Tick ==
  /\ now < MaxNow
  /\ now' = now + 1
  /\ UNCHANGED <<messages, queue, sends, requests, stats, fb, redelivered,
                 fallback_count, xvars>>

\* DeliveryService.send_message: an opted-out recipient is refused, otherwise
\* the message is created, saved and queued for delivery
SendMessage(m, is_opted_out) ==
  /\ messages[m] = NoMessage
  /\ \A k \in MsgIds : k < m => messages[k] # NoMessage   \* ids are fresh; taken in order
  /\ IF is_opted_out
       THEN UNCHANGED <<messages, queue>>
       ELSE /\ messages' = [messages EXCEPT ![m] = MessageCreate(now)]
            /\ queue' = Enqueue(queue, m, <<0>>)
  /\ UNCHANGED <<now, sends, requests, stats, fb, redelivered, fallback_count, xvars>>

\* MessageDispatcher.process_message_job on job j: one transaction around
\* process_message_delivery; ack = FALSE is a finished handler whose
\* acknowledgement is lost, so that the broker delivers the job again
Dispatch(j, capable, http, ack) ==
  LET m == j.message_id
      model == messages[m]
      ext == <<m, sends[m] + 1>>
      r == process_message_delivery(model, capable, http, ext, now)
  IN
  /\ queue[j] > 0
  /\ model # NoMessage
  /\ model.channel = "rcs" \/ capable
  /\ r.send_invoked \/ http.type = "submitted"
  /\ ack \/ redelivered < MaxRedeliver
  /\ messages' = [messages EXCEPT ![m] = update_from_domain(model, r.message)]
  /\ queue' = Enqueue([queue EXCEPT ![j] = IF ack THEN @ - 1 ELSE @], m, r.delays)
  /\ redelivered' = IF ack THEN redelivered ELSE redelivered + 1
  /\ sends' = IF r.send_invoked /\ http.type = "submitted"
                THEN [sends EXCEPT ![m] = @ + 1] ELSE sends
  /\ requests' = IF r.send_invoked
                   THEN [requests EXCEPT ![m][r.request_channel] = @ + 1]
                   ELSE requests
  /\ stats' = [stats EXCEPT !.messages_sent = @ + r.sent]
  /\ fallback_count' = IF r.triggered THEN [fallback_count EXCEPT ![m] = @ + 1]
                                      ELSE fallback_count
  /\ UNCHANGED <<now, fb, xvars>>

\* the external ids the aggregator has issued so far
IssuedIds == {e \in MsgIds \X (1..MaxSendsPerMessage) : e[2] <= sends[e[1]]}

\* MessageRepository.get_by_external_id
get_by_external_id(eid) ==
  {m \in MsgIds : messages[m] # NoMessage /\ messages[m].external_id = eid}

\* DeliveryService.handle_delivery_status_update inside its transaction, which
\* is rolled back when the update raises; no message found changes nothing
StatusUpdate(eid, status) ==
  LET found == get_by_external_id(eid) IN
  IF found = {}
    THEN UNCHANGED <<messages, queue, stats, fallback_count>>
    ELSE LET m == CHOOSE x \in found : TRUE
             model == messages[m]
             h == handle_delivery_status_update(model, status)
         IN
         IF h.raised
              THEN UNCHANGED <<messages, queue, stats, fallback_count>>
              ELSE /\ messages' = [messages EXCEPT
                                     ![m] = update_from_domain(model, h.res.message)]
                   /\ queue' = Enqueue(queue, m, h.res.delays)
                   /\ stats' = IF h.stat = "none" THEN stats
                               ELSE [stats EXCEPT ![h.stat] = @ + 1]
                   /\ fallback_count' = IF h.res.triggered
                                          THEN [fallback_count EXCEPT ![m] = @ + 1]
                                          ELSE fallback_count

\* the cap on the messages_read counter
ReadCap(eid, status) ==
  status = "read" /\ (\E m \in get_by_external_id(eid) : messages[m].channel = "sms")
    => stats.messages_read < MaxStat

\* WebhookProcessor.process_webhook_job for a correctly signed webhook carrying
\* (eid, status): one transaction around handle_delivery_status_update
Webhook(eid, status) ==
  /\ eid \in IssuedIds
  /\ ReadCap(eid, status)
  /\ StatusUpdate(eid, status)
  /\ UNCHANGED <<now, sends, requests, fb, redelivered, xvars>>

\* SMSFallbackWorker.process_fallback_job, up to its checkpoint commit: a job
\* for a message that should not fall back is dropped; otherwise the fallback
\* is triggered and committed before the SMS is sent
FallbackTrigger(m) ==
  LET model == messages[m]
      message == to_domain(model)
  IN
  /\ fb.pc = "idle"
  /\ model # NoMessage
  /\ IF ~should_fallback_to_sms(message)
       THEN UNCHANGED <<messages, fb, fallback_count>>
       ELSE LET t == trigger_fallback(message).msg IN
            /\ messages' = [messages EXCEPT ![m] = update_from_domain(model, t)]
            /\ fb' = [pc |-> "send", id |-> m, msg |-> t]
            /\ fallback_count' = [fallback_count EXCEPT ![m] = @ + 1]
  /\ UNCHANGED <<queue, now, sends, requests, stats, redelivered, xvars>>

\* SMSFallbackWorker.process_fallback_job, from the SMS send to the final
\* commit: the worker's in-memory message is written over the stored row
FallbackSend(http) ==
  LET m == fb.id
      model == messages[m]
      r == GupshupSend(http)
      ok == r.exc = "none" /\ r.success
      ext == <<m, sends[m] + 1>>
      after == IF ok THEN mark_fallback_sent(fb.msg, ext)
               ELSE mark_failed(fb.msg, "network_error")
  IN
  /\ fb.pc = "send"
  /\ messages' = [messages EXCEPT ![m] = update_from_domain(model, after)]
  /\ sends' = IF http.type = "submitted" THEN [sends EXCEPT ![m] = @ + 1] ELSE sends
  /\ requests' = [requests EXCEPT ![m].sms = @ + 1]
  /\ stats' = IF ok THEN [stats EXCEPT !.fallback_triggered = @ + 1]
              ELSE IF r.exc = "none" THEN [stats EXCEPT !.messages_failed = @ + 1]
              ELSE stats
  /\ fb' = FbIdle
  /\ UNCHANGED <<queue, now, redelivered, fallback_count, xvars>>

Next ==
  \/ Tick
  \/ \E m \in MsgIds, o \in BOOLEAN : SendMessage(m, o)
  \/ \E j \in Jobs, c \in BOOLEAN, h \in HttpOutcomes, a \in BOOLEAN : Dispatch(j, c, h, a)
  \/ \E e \in MsgIds \X (1..MaxSendsPerMessage), s \in {"delivered", "read", "failed"} :
       Webhook(e, s)
  \/ \E m \in MsgIds : FallbackTrigger(m)
  \/ \E h \in HttpOutcomes : FallbackSend(h)

Spec == Init /\ [][Next]_vars

\* ------------------------------------------- campaign service, orchestrator
\* one CampaignService call: load, apply the method (result r), save, publish
\* the events and enqueue the orchestration jobs due at the times in due; an
\* exception rolls the transaction back
ServiceCall(r, due) ==
  /\ IF r.raised
       THEN UNCHANGED <<campaign, stats, orch_jobs, saved_events>>
       ELSE /\ StoreCampaign(campaign_update_from_domain(CampaignModel, CampaignModel,
                                                         collect_events(r.c)))
            /\ saved_events' = publish_events(r.c)
            /\ orch_jobs' = [t \in 0..MaxNow |->
                               orch_jobs[t] + (IF t \in due THEN 1 ELSE 0)]
  /\ UNCHANGED <<messages, queue, now, sends, requests, fb, redelivered, fallback_count,
                 orch, opted_out, crashes, bq, workers, conn, dispatched, probe, extra>>

\* CampaignService.add_audience
AddAudience(audience_id, n) ==
  LET r == add_audience(campaign_to_domain(CampaignModel), audience_id, n) IN
  /\ campaign.recipient_count + n <= MaxRecipientCount
  /\ ServiceCall(r, {})
  /\ UNCHANGED attached

\* CampaignService.schedule_campaign
ScheduleCampaign(scheduled_for) ==
  /\ ServiceCall(schedule(campaign_to_domain(CampaignModel), scheduled_for, now),
                {now + schedule_delay(scheduled_for, now)})
  /\ UNCHANGED attached

\* CampaignService.activate_campaign
ActivateCampaign ==
  /\ ServiceCall(activate(campaign_to_domain(CampaignModel)), {now})
  /\ UNCHANGED attached

\* CampaignService.pause_campaign
PauseCampaign ==
  /\ ServiceCall(pause(campaign_to_domain(CampaignModel)), {})
  /\ UNCHANGED attached

\* CampaignService.resume_campaign
ResumeCampaign ==
  /\ ServiceCall(resume(campaign_to_domain(CampaignModel)), {})
  /\ UNCHANGED attached

\* CampaignService.cancel_campaign
CancelCampaign ==
  /\ ServiceCall(cancel(campaign_to_domain(CampaignModel)), {})
  /\ UNCHANGED attached

\* CampaignService.complete_campaign
CompleteCampaign ==
  /\ ServiceCall(complete(campaign_to_domain(CampaignModel)), {})
  /\ UNCHANGED attached

\* CampaignOrchestrator._should_execute_campaign
should_execute_campaign(c, t) ==
  IF c.status \notin {"scheduled", "active"} THEN FALSE
  ELSE IF c.scheduled_for # NoTime /\ t < c.scheduled_for THEN FALSE
  ELSE TRUE

\* QueuePriority
QueuePriority == [LOW |-> 1, MEDIUM |-> 5, HIGH |-> 10, URGENT |-> 20]

\* CampaignOrchestrator._map_priority: mapping.get(priority, QueuePriority.MEDIUM)
map_priority_AlwaysMedium(priority) == QueuePriority.MEDIUM
map_priority(priority) ==
  CASE priority = "low" -> QueuePriority.LOW
    [] priority = "medium" -> QueuePriority.MEDIUM
    [] priority = "high" -> QueuePriority.HIGH
    [] priority = "urgent" -> QueuePriority.URGENT
    [] OTHER -> QueuePriority.MEDIUM

\* the orchestration job due at t leaves the queue, acknowledged
OrchAck(t) == orch_jobs' = [orch_jobs EXCEPT ![t] = @ - 1]

\* process_campaign_job: the job due at t is delivered and the campaign is
\* loaded; a campaign that is not ready ends the job
OrchLoad(t) ==
  LET c == campaign_to_domain(CampaignModel) IN
  /\ orch.pc = "idle"
  /\ orch_jobs[t] > 0 /\ t <= now
  /\ IF ~should_execute_campaign(c, now)
       THEN OrchAck(t) /\ UNCHANGED orch
       ELSE /\ orch' = [pc |-> "loaded", c |-> c, loaded |-> CampaignModel,
                        batch |-> {}, again |-> {}, enqueued |-> {}, job |-> t]
            /\ UNCHANGED orch_jobs
  /\ UNCHANGED <<dvars, campaign, opted_out, crashes, attached, bq, workers, avars>>

\* process_campaign_job: a SCHEDULED campaign is activated, saved and committed
\* (checkpoint); activate() raising ends the handler with the job requeued
OrchActivate ==
  LET a == activate(orch.c) IN
  /\ orch.pc = "loaded"
  /\ IF orch.c.status # "scheduled"
       THEN /\ orch' = [orch EXCEPT !.pc = "create"]
            /\ UNCHANGED <<campaign, stats, crashes, saved_events>>
     ELSE IF a.raised
       THEN /\ crashes < MaxCrash
            /\ crashes' = crashes + 1
            /\ orch' = OrchIdle
            /\ UNCHANGED <<campaign, stats, saved_events>>
     ELSE /\ StoreCampaign(campaign_update_from_domain(CampaignModel, orch.loaded, a.c))
          /\ saved_events' = 0
          /\ orch' = [orch EXCEPT !.pc = "create", !.c = a.c,
                                  !.loaded = campaign_row(a.c)]
          /\ UNCHANGED crashes
  /\ UNCHANGED <<messages, queue, now, sends, requests, fb, redelivered, fallback_count,
                 orch_jobs, opted_out, attached, bq, workers, conn, dispatched, probe,
                 extra>>

\* _get_campaign_recipients: the same list on every call, whatever Messages
\* there are already
Recipients == MsgIds

\* process_campaign_job, _create_messages: one new Message per recipient of the
\* batch, saved and committed (checkpoint); no recipients ends the job. The
\* first Message of a recipient is its row of messages, a further one is
\* counted in extra
OrchCreateMessages ==
  LET first == {m \in Recipients : messages[m] = NoMessage}
      again == Recipients \ first
  IN
  /\ orch.pc = "create"
  /\ \A r \in again : extra[r].rows < MaxExtra
  /\ IF Recipients = {}
       THEN /\ OrchAck(orch.job)
            /\ orch' = OrchIdle
            /\ UNCHANGED <<messages, extra>>
       ELSE /\ messages' = [m \in MsgIds |->
                              IF m \in first
                                THEN MessageCreateWith(now, orch.c.priority)
                                ELSE messages[m]]
            /\ extra' = [r \in MsgIds |->
                           IF r \in again THEN [extra[r] EXCEPT !.rows = @ + 1]
                                          ELSE extra[r]]
            /\ orch' = [orch EXCEPT !.pc = "queue", !.batch = first, !.again = again]
            /\ UNCHANGED orch_jobs
  /\ UNCHANGED <<queue, now, sends, requests, stats, fb, redelivered, fallback_count,
                 campaign, opted_out, crashes, attached, bq, workers,
                 conn, saved_events, dispatched, probe>>

\* process_campaign_job, _queue_messages_for_dispatch: one dispatch job per
\* message of the batch
OrchQueue ==
  /\ orch.pc = "queue"
  /\ queue' = [j \in Jobs |->
                 queue[j] + (IF j.delay = 0 /\ j.message_id \in orch.batch THEN 1 ELSE 0)]
  /\ extra' = [r \in MsgIds |->
                 IF r \in orch.again THEN [extra[r] EXCEPT !.jobs = @ + 1] ELSE extra[r]]
  /\ dispatched' = dispatched \cup
       {[id |-> m, priority |-> map_priority(messages[m].priority)] : m \in orch.batch}
  /\ orch' = [orch EXCEPT !.pc = "final", !.enqueued = orch.batch \cup orch.again]
  /\ UNCHANGED <<messages, now, sends, requests, stats, fb, redelivered, fallback_count,
                 campaign, orch_jobs, opted_out, crashes, attached, bq, workers,
                 conn, saved_events, probe>>

\* process_campaign_job: recipient_count is set, the campaign saved, the
\* transaction committed and the job acknowledged
OrchFinal ==
  LET c == [orch.c EXCEPT !.recipient_count =
                            Cardinality(orch.batch) + Cardinality(orch.again)] IN
  /\ orch.pc = "final"
  /\ StoreCampaign(campaign_update_from_domain(CampaignModel, orch.loaded, c))
  /\ saved_events' = 0
  /\ OrchAck(orch.job)
  /\ orch' = OrchIdle
  /\ UNCHANGED <<messages, queue, now, sends, requests, fb, redelivered, fallback_count,
                 opted_out, crashes, attached, bq, workers, conn, dispatched, probe,
                 extra>>

\* the handler ends in an exception, or the worker dies, after the campaign
\* was loaded: what is not committed is rolled back and the broker delivers
\* the job again
OrchCrash ==
  /\ orch.pc \in {"loaded", "create", "queue", "final"}
  /\ crashes < MaxCrash
  /\ crashes' = crashes + 1
  /\ orch' = OrchIdle
  /\ UNCHANGED <<dvars, campaign, orch_jobs, opted_out, attached, bq, workers, avars>>

\* DeliveryService.send_message_batch: the opted-out recipients are filtered
\* out, one Message is created for each of the others and, after the commit,
\* one dispatch job is enqueued for each
SendMessageBatch(recipients) ==
  LET valid_recipients == {m \in recipients : m \notin opted_out} IN
  /\ recipients # {}
  /\ \A m \in recipients : messages[m] = NoMessage
  /\ messages' = [m \in MsgIds |->
                    IF m \in valid_recipients THEN MessageCreate(now) ELSE messages[m]]
  /\ queue' = [j \in Jobs |->
                 queue[j] + (IF j.delay = 0 /\ j.message_id \in valid_recipients
                               THEN 1 ELSE 0)]
  /\ UNCHANGED <<now, sends, requests, stats, fb, redelivered, fallback_count, xvars>>

\* the campaign with row c, no message and no job
CampInitWith(c) ==
  /\ messages = [m \in MsgIds |-> NoMessage]
  /\ queue = [j \in Jobs |-> 0]
  /\ now = 0
  /\ sends = [m \in MsgIds |-> 0]
  /\ requests = [m \in MsgIds |-> [rcs |-> 0, sms |-> 0]]
  /\ stats = [messages_sent |-> 0, messages_delivered |-> 0, messages_read |-> 0,
              messages_failed |-> 0, fallback_triggered |-> 0]
  /\ fb = FbIdle
  /\ redelivered = 0
  /\ fallback_count = [m \in MsgIds |-> 0]
  /\ CampaignIdleWith(c) /\ opted_out \in SUBSET MsgIds
  /\ BrokerIdle
  /\ WorkersIdle
  /\ AdaptersNew
  /\ saved_events = publish_events(CampaignCreate)
  /\ dispatched = {}
  /\ probe = NoProbe
  /\ extra = NoExtra

CampInit == CampInitWith(CampaignCreate)

\* the campaigns rows there can be: any priority, and the enable_fallback
\* column either way
CampaignRows ==
  {[CampaignCreateWith(p) EXCEPT !.enable_fallback = f] : p \in Priorities, f \in BOOLEAN}

OrchInit == \E c \in CampaignRows : CampInitWith(c)

CampNext ==
  \/ Tick
  \/ \E m \in MsgIds : SendMessage(m, m \in opted_out)
  \/ \E r \in SUBSET MsgIds : SendMessageBatch(r)
  \/ \E a \in AudienceIds, n \in 0..MaxRecipientCount : AddAudience(a, n)
  \/ \E t \in 0..MaxNow : ScheduleCampaign(t)
  \/ ActivateCampaign
  \/ PauseCampaign
  \/ ResumeCampaign
  \/ CancelCampaign
  \/ CompleteCampaign
  \/ \E t \in 0..MaxNow : OrchLoad(t)
  \/ OrchActivate
  \/ OrchCreateMessages
  \/ OrchQueue
  \/ OrchFinal
  \/ OrchCrash

CampSpec == CampInit /\ [][CampNext]_vars

\* CampaignService.add_audience with the history of the audiences attached: a
\* call that does not raise attaches the audience, unless an audience of that
\* id is attached already
AddAudienceRecorded(audience_id, n) ==
  /\ campaign.recipient_count + n <= MaxRecipientCount
  /\ ServiceCall(add_audience(campaign_to_domain(CampaignModel), audience_id, n), {})
  /\ attached' =
       IF add_audience(campaign_to_domain(CampaignModel), audience_id, n).raised
            \/ (\E x \in attached : x.id = audience_id)
         THEN attached
         ELSE attached \cup {[id |-> audience_id, count |-> n]}

\* the campaign service alone
AudNext ==
  \/ Tick
  \/ \E a \in AudienceIds, n \in 0..MaxRecipientCount : AddAudienceRecorded(a, n)
  \/ \E t \in 0..MaxNow : ScheduleCampaign(t)
  \/ ActivateCampaign
  \/ PauseCampaign
  \/ ResumeCampaign
  \/ CancelCampaign
  \/ CompleteCampaign

AudSpec == CampInit /\ [][AudNext]_vars

\* the campaign service and the orchestrator together with the workers that
\* increment the campaign's counters: the dispatcher and the webhook processor
StatNext ==
  \/ Tick
  \/ \E a \in AudienceIds, n \in 0..MaxRecipientCount : AddAudience(a, n)
  \/ \E t \in 0..MaxNow : ScheduleCampaign(t)
  \/ ActivateCampaign
  \/ PauseCampaign
  \/ ResumeCampaign
  \/ CancelCampaign
  \/ CompleteCampaign
  \/ \E t \in 0..MaxNow : OrchLoad(t)
  \/ OrchActivate
  \/ OrchCreateMessages
  \/ OrchQueue
  \/ OrchFinal
  \/ \E j \in Jobs, c \in BOOLEAN, h \in HttpOutcomes : Dispatch(j, c, h, TRUE)
  \/ \E e \in MsgIds \X (1..MaxSendsPerMessage), s \in {"delivered", "read", "failed"} :
       Webhook(e, s)

StatSpec == Init /\ [][StatNext]_vars

\* the campaign pipeline together with the dispatcher; the workers consume
\* their queues for as long as there are jobs, and the clock advances
LiveNext ==
  \/ CampNext
  \/ \E j \in Jobs, c \in BOOLEAN, h \in HttpOutcomes, a \in BOOLEAN : Dispatch(j, c, h, a)

LiveSpec ==
  /\ CampInit /\ [][LiveNext]_vars
  /\ WF_vars(Tick)
  /\ WF_vars(\E j \in Jobs, c \in BOOLEAN, h \in HttpOutcomes, a \in BOOLEAN :
               Dispatch(j, c, h, a))
  /\ WF_vars(\E t \in 0..MaxNow : OrchLoad(t))
  /\ WF_vars(OrchActivate)
  /\ WF_vars(OrchCreateMessages)
  /\ WF_vars(OrchQueue)
  /\ WF_vars(OrchFinal)

\* ------------------------------------------------------- RabbitMQ adapter
\* RabbitMQAdapter.enqueue: the job is published to its queue with the headers
\* x-max-retries = max_retries and x-retry-count = 0
QEnqueue(k, max_retries) ==
  /\ bq[k].loc = "none"
  /\ bq' = [bq EXCEPT ![k] = [NoJob EXCEPT !.loc = "ready",
                                          !.max_retries = max_retries]]
  /\ UNCHANGED <<dvars, cvars, workers, avars>>

\* RabbitMQAdapter.subscribe: the broker delivers job k to the consumer, which
\* handles one job at a time
SubscribeDeliver(k) ==
  /\ bq[k].loc = "ready"
  /\ \A i \in JobIds : bq[i].loc # "unacked"
  /\ bq[k].deliveries < MaxDeliveries
  /\ bq' = [bq EXCEPT ![k].loc = "unacked", ![k].via = "subscribe",
                      ![k].deliveries = @ + 1]
  /\ UNCHANGED <<dvars, cvars, workers, avars>>

\* subscribe, the handler returns: message.process() acknowledges on exit
HandlerOk(k) ==
  /\ bq[k].loc = "unacked"
  /\ bq' = [bq EXCEPT ![k].loc = "acked", ![k].done = TRUE]
  /\ UNCHANGED <<dvars, cvars, workers, avars>>

\* subscribe's except branch, on the headers of the delivered message: requeue
\* while x-retry-count < x-max-retries, else dead-letter; no header is changed.
\* ctx_rejected: message.process(requeue=True) has already rejected the
\* message with requeue on leaving the context with the exception
subscribe_on_error(job, ctx_rejected) ==
  IF ctx_rejected THEN [job EXCEPT !.loc = "ready"]
  ELSE IF job.retry_count < job.max_retries THEN [job EXCEPT !.loc = "ready"]
  ELSE [job EXCEPT !.loc = "dlq"]

\* subscribe, the handler raises
HandlerFails(k, ctx_rejected) ==
  /\ bq[k].loc = "unacked"
  /\ bq' = [bq EXCEPT ![k] = subscribe_on_error(bq[k], ctx_rejected)]
  /\ UNCHANGED <<dvars, cvars, workers, avars>>

\* the consumer's connection is lost while job k is unacknowledged: the
\* broker makes the job ready again
ConsumerDisconnect(k) ==
  /\ bq[k].loc = "unacked"
  /\ bq' = [bq EXCEPT ![k].loc = "ready"]
  /\ UNCHANGED <<dvars, cvars, workers, avars>>

\* RabbitMQAdapter.dequeue: the job is returned from inside
\* `async with message.process()`, which acknowledges the message as the
\* function returns; the caller then holds the job
Dequeue(k) ==
  /\ bq[k].loc = "ready"
  /\ bq[k].deliveries < MaxDeliveries
  /\ bq' = [bq EXCEPT ![k].loc = "acked", ![k].via = "dequeue",
                      ![k].deliveries = @ + 1, ![k].caller = "processing"]
  /\ UNCHANGED <<dvars, cvars, workers, avars>>

\* the caller of dequeue finishes the job and calls acknowledge, which only logs
Acknowledge(k) ==
  /\ bq[k].caller = "processing"
  /\ bq' = [bq EXCEPT ![k].caller = "none", ![k].done = TRUE]
  /\ UNCHANGED <<dvars, cvars, workers, avars>>

\* the caller of dequeue fails, or dies, while processing the job
CallerFails(k) ==
  /\ bq[k].caller = "processing"
  /\ bq' = [bq EXCEPT ![k].caller = "none"]
  /\ UNCHANGED <<dvars, cvars, workers, avars>>

QueueNext ==
  \/ \E k \in JobIds, n \in 0..MaxJobRetries : QEnqueue(k, n)
  \/ \E k \in JobIds : SubscribeDeliver(k)
  \/ \E k \in JobIds : HandlerOk(k)
  \/ \E k \in JobIds, x \in BOOLEAN : HandlerFails(k, x)
  \/ \E k \in JobIds : ConsumerDisconnect(k)
  \/ \E k \in JobIds : Dequeue(k)
  \/ \E k \in JobIds : Acknowledge(k)
  \/ \E k \in JobIds : CallerFails(k)

QueueSpec == Init /\ [][QueueNext]_vars

\* ------------------------------------------------- webhook jobs of the broker
\* process_webhook_job returns early, before any transaction, for a webhook
\* whose signature handle_webhook rejects
webhook_dropped_NoSignatureCheck(signature_valid) == FALSE

webhook_dropped(signature_valid) == ~signature_valid

\* TRUE when process_webhook_job ends in an exception
webhook_raises(eid, status, signature_valid) ==
  LET found == get_by_external_id(eid) IN
  /\ ~webhook_dropped(signature_valid)
  /\ found # {}
  /\ handle_delivery_status_update(messages[CHOOSE x \in found : TRUE], status).raised

\* the consumer of the webhook queue runs process_webhook_job on the delivered
\* job k, which carries (eid, status) and a signature: the handler returning
\* acknowledges the job, the handler raising goes through subscribe's except
\* branch
WebhookJob(k, eid, status, signature_valid, ctx_rejected) ==
  /\ bq[k].loc = "unacked"
  /\ ReadCap(eid, status)
  /\ IF webhook_dropped(signature_valid)
       THEN UNCHANGED <<messages, queue, stats, fallback_count>>
       ELSE StatusUpdate(eid, status)
  /\ bq' = [bq EXCEPT ![k] =
              IF webhook_raises(eid, status, signature_valid)
                THEN subscribe_on_error(bq[k], ctx_rejected)
                ELSE [bq[k] EXCEPT !.loc = "acked", !.done = TRUE]]
  /\ UNCHANGED <<now, sends, requests, fb, redelivered, cvars, workers, avars>>

\* the job of the broker that carries the webhook
HookJob == CHOOSE k \in JobIds : TRUE

\* messages are created and sent while a webhook job is published and consumed
HookNext ==
  \/ \E m \in MsgIds : SendMessage(m, FALSE)
  \/ \E j \in Jobs, c \in BOOLEAN, h \in HttpOutcomes : Dispatch(j, c, h, TRUE)
  \/ \E n \in 0..MaxJobRetries : QEnqueue(HookJob, n)
  \/ SubscribeDeliver(HookJob)
  \/ \E e \in MsgIds \X (1..MaxSendsPerMessage),
        s \in {"delivered", "read", "failed"}, v \in BOOLEAN, x \in BOOLEAN :
       WebhookJob(HookJob, e, s, v, x)
  \/ ConsumerDisconnect(HookJob)

HookSpec == Init /\ [][HookNext]_vars

\* the vendor reports a status more than once: several correctly signed
\* webhook jobs are published and consumed
DupNext ==
  \/ \E m \in MsgIds : SendMessage(m, FALSE)
  \/ \E j \in Jobs, c \in BOOLEAN, h \in HttpOutcomes : Dispatch(j, c, h, TRUE)
  \/ \E k \in JobIds, n \in 0..MaxJobRetries : QEnqueue(k, n)
  \/ \E k \in JobIds : SubscribeDeliver(k)
  \/ \E k \in JobIds, e \in MsgIds \X (1..MaxSendsPerMessage),
        s \in {"delivered", "read", "failed"}, x \in BOOLEAN :
       WebhookJob(k, e, s, TRUE, x)

DupSpec == Init /\ [][DupNext]_vars

\* --------------------------------------------- several dispatcher workers
\* the handler of process_message_job step by step, for worker processes that
\* consume the same queue: the job is delivered and the row loaded (WTake),
\* process_message_delivery runs and publishes its follow-up jobs inside the
\* open transaction (WProcess), the transaction commits (WCommit), the job is
\* acknowledged (WAck)

\* deliveries of job j that are not acknowledged yet
Unacked(j) == Cardinality({w \in Workers : workers[w].pc # "idle" /\ workers[w].job = j})

\* the flush of a session that loaded the row as `loaded`: the UPDATE carries
\* the columns whose value differs from the loaded one
flush_changed(row, loaded, message) ==
  LET new == update_from_domain(loaded, message) IN
  [f \in DOMAIN row |-> IF new[f] # loaded[f] THEN new[f] ELSE row[f]]

WTake(w, j) ==
  /\ workers[w].pc = "idle"
  /\ queue[j] > Unacked(j)
  /\ messages[j.message_id] # NoMessage
  /\ workers' = [workers EXCEPT ![w] = [pc |-> "process", job |-> j,
                                        model |-> messages[j.message_id]]]
  /\ UNCHANGED <<dvars, cvars, bq, avars>>

WProcess(w, capable, http) ==
  LET m == workers[w].job.message_id
      model == workers[w].model
      r == process_message_delivery(model, capable, http, <<m, sends[m] + 1>>, now)
  IN
  /\ workers[w].pc = "process"
  /\ model.channel = "rcs" \/ capable
  /\ r.send_invoked \/ http.type = "submitted"
  /\ sends[m] < MaxSendsPerMessage
  /\ queue' = Enqueue(queue, m, r.delays)
  /\ sends' = IF r.send_invoked /\ http.type = "submitted"
                THEN [sends EXCEPT ![m] = @ + 1] ELSE sends
  /\ requests' = IF r.send_invoked
                   THEN [requests EXCEPT ![m][r.request_channel] = @ + 1]
                   ELSE requests
  /\ workers' = [workers EXCEPT ![w] = [pc |-> "commit", job |-> workers[w].job,
                                        model |-> model, res |-> r]]
  /\ UNCHANGED <<messages, now, stats, fb, redelivered, fallback_count, cvars, bq, avars>>

WCommit(w) ==
  LET m == workers[w].job.message_id
      r == workers[w].res
  IN
  /\ workers[w].pc = "commit"
  /\ messages' = [messages EXCEPT
                    ![m] = flush_changed(messages[m], workers[w].model, r.message)]
  /\ stats' = [stats EXCEPT !.messages_sent = @ + r.sent]
  /\ fallback_count' = IF r.triggered THEN [fallback_count EXCEPT ![m] = @ + 1]
                                      ELSE fallback_count
  /\ workers' = [workers EXCEPT ![w] = [pc |-> "ack", job |-> workers[w].job]]
  /\ UNCHANGED <<queue, now, sends, requests, fb, redelivered, cvars, bq, avars>>

WAck(w) ==
  /\ workers[w].pc = "ack"
  /\ queue' = [queue EXCEPT ![workers[w].job] = @ - 1]
  /\ workers' = [workers EXCEPT ![w] = WIdle]
  /\ UNCHANGED <<messages, now, sends, requests, stats, fb, redelivered,
                 fallback_count, cvars, bq, avars>>

ConcNext ==
  \/ Tick
  \/ \E m \in MsgIds, o \in BOOLEAN : SendMessage(m, o)
  \/ \E w \in Workers, j \in Jobs : WTake(w, j)
  \/ \E w \in Workers, c \in BOOLEAN, h \in HttpOutcomes : WProcess(w, c, h)
  \/ \E w \in Workers : WCommit(w)
  \/ \E w \in Workers : WAck(w)

ConcSpec == Init /\ [][ConcNext]_vars

\* ------------------------------------------ RabbitMQ adapter: connect()
max_retries == 5
base_delay == 2

RECURSIVE Pow2(_)
Pow2(n) == IF n = 0 THEN 1 ELSE 2 * Pow2(n - 1)

\* the sleep after the retries-th failed attempt
connect_delay_Linear(retries) == base_delay * retries
connect_delay(retries) == base_delay * Pow2(retries - 1)

\* the awaits of one attempt, in order; an attempt fails at one of them or
\* passes them all
ConnectSteps == <<"connect_robust", "channel", "set_qos", "declare_exchange">>
AttemptOutcomes == {0} \cup (1..Len(ConnectSteps))

\* connect() is called: by a worker's start(), or by _ensure_connected when
\* there is no open connection
ConnectCall(a) ==
  /\ conn[a].pc \in {"idle", "raised"}
  /\ conn' = [conn EXCEPT ![a] = [@ EXCEPT !.pc = "loop", !.retries = 0,
                                            !.attempts = 0, !.slept = <<>>]]
  /\ UNCHANGED <<dvars, cvars, bq, workers, saved_events, dispatched, probe, extra>>

\* one pass of the while loop of connect(); failed_at = 0 when every await of
\* the attempt succeeds, else the index in ConnectSteps of the one that raises
ConnectAttempt(a, failed_at) ==
  LET c == conn[a]
      retries == c.retries + 1
      \* self.connection and self.channel are assigned as the awaits return
      connection == IF failed_at = 1 THEN c.connection ELSE "open"
      channel == IF failed_at \in {1, 2} THEN c.channel ELSE TRUE
      tried == [c EXCEPT !.attempts = @ + 1, !.connection = connection,
                         !.channel = channel]
  IN
  /\ c.pc = "loop"
  /\ conn' = [conn EXCEPT ![a] =
       IF ~(c.retries < max_retries) THEN [c EXCEPT !.pc = "returned"]
       ELSE IF failed_at = 0 THEN [tried EXCEPT !.pc = "connected"]
       ELSE IF retries >= max_retries
              THEN [tried EXCEPT !.pc = "raised", !.retries = retries]
       ELSE [tried EXCEPT !.retries = retries,
                          !.slept = Append(@, connect_delay(retries))]]
  /\ UNCHANGED <<dvars, cvars, bq, workers, saved_events, dispatched, probe, extra>>

\* the broker closes the connection of a connected adapter
ConnectionLost(a) ==
  /\ conn[a].pc = "connected"
  /\ conn' = [conn EXCEPT ![a] = [@ EXCEPT !.pc = "idle", !.connection = "closed"]]
  /\ UNCHANGED <<dvars, cvars, bq, workers, saved_events, dispatched, probe, extra>>

ConnNext ==
  \/ \E a \in Adapters : ConnectCall(a)
  \/ \E a \in Adapters, f \in AttemptOutcomes : ConnectAttempt(a, f)
  \/ \E a \in Adapters : ConnectionLost(a)

\* connect() is a coroutine that runs on: every await of an attempt returns or
\* raises (connect_robust is given a timeout) and every sleep ends
ConnSpec ==
  /\ Init
  /\ [][ConnNext]_vars
  /\ \A a \in Adapters : WF_vars(\E f \in AttemptOutcomes : ConnectAttempt(a, f))

\* ------------------------------------- RabbitMQ adapter: enqueue_batch()
\* RabbitMQAdapter.enqueue: the job is published and its id returned
enqueue(q, job) == [q EXCEPT ![job] = @ + 1]

\* the for loop of enqueue_batch from its i-th job on; the fail_at-th enqueue
\* raises QueueException (fail_at = 0: none does)
RECURSIVE enqueue_batch_from(_, _, _, _, _)
enqueue_batch_from(q, batch, fail_at, i, job_ids) ==
  IF i > Len(batch) THEN [queue |-> q, job_ids |-> job_ids, raised |-> FALSE]
  ELSE IF i = fail_at THEN [queue |-> q, job_ids |-> <<>>, raised |-> TRUE]
  ELSE enqueue_batch_from(enqueue(q, batch[i]), batch, fail_at, i + 1,
                          Append(job_ids, batch[i]))

enqueue_batch(q, batch, fail_at) == enqueue_batch_from(q, batch, fail_at, 1, <<>>)

\* the batches a caller passes: up to MaxBatch jobs
Batches == UNION {[1..n -> Jobs] : n \in 1..MaxBatch}

\* one call of enqueue_batch
EnqueueBatch(batch, fail_at) ==
  LET r == enqueue_batch(queue, batch, fail_at) IN
  /\ \A j \in Jobs : r.queue[j] <= MaxQueued
  /\ queue' = r.queue
  /\ UNCHANGED <<messages, now, sends, requests, stats, fb, redelivered,
                 fallback_count, xvars>>

\* a consumer takes a job off the queue
BatchConsume(j) ==
  /\ queue[j] > 0
  /\ queue' = [queue EXCEPT ![j] = @ - 1]
  /\ UNCHANGED <<messages, now, sends, requests, stats, fb, redelivered,
                 fallback_count, xvars>>

BatchNext ==
  \/ Tick
  \/ \E b \in Batches, f \in 0..MaxBatch : EnqueueBatch(b, f)
  \/ \E j \in Jobs : BatchConsume(j)

BatchSpec == Init /\ [][BatchNext]_vars

\* -------------------- the campaign service and the orchestrator alone
\* every Message is created by the expansion of the campaign
ExpandNext ==
  \/ Tick
  \/ \E a \in AudienceIds, n \in 0..MaxRecipientCount : AddAudience(a, n)
  \/ \E t \in 0..MaxNow : ScheduleCampaign(t)
  \/ ActivateCampaign
  \/ PauseCampaign
  \/ ResumeCampaign
  \/ CancelCampaign
  \/ CompleteCampaign
  \/ \E t \in 0..MaxNow : OrchLoad(t)
  \/ OrchActivate
  \/ OrchCreateMessages
  \/ OrchQueue
  \/ OrchFinal
  \/ OrchCrash

ExpandSpec == CampInit /\ [][ExpandNext]_vars

\* ------------------------------ the orchestrator over every campaign row
OrchSpec == OrchInit /\ [][CampNext]_vars

\* ------------------------------------------- the methods of one Message
\* the Message objects there can be, over every value of the attributes the
\* methods read
MessageInputs ==
  [status : Statuses, channel : Channels, priority : {"medium"},
   retry_count : 0..MaxRetryInput, max_retries : 0..MaxRetryInput,
   fallback_enabled : BOOLEAN, fallback_triggered : BOOLEAN, external_id : {NoId},
   failure_reason : FailureReasons \cup {NoReason},
   expires_at : {ExpiresAt(t) : t \in 0..MaxNow}]

\* a Message object is built and the clock reads `at`
ProbeInit ==
  /\ messages = [m \in MsgIds |-> NoMessage]
  /\ queue = [j \in Jobs |-> 0]
  /\ now = 0
  /\ sends = [m \in MsgIds |-> 0]
  /\ requests = [m \in MsgIds |-> [rcs |-> 0, sms |-> 0]]
  /\ stats = CampaignStats
  /\ fb = FbIdle
  /\ redelivered = 0
  /\ fallback_count = [m \in MsgIds |-> 0]
  /\ CampaignIdle /\ opted_out = {}
  /\ BrokerIdle
  /\ WorkersIdle
  /\ AdaptersNew
  /\ saved_events = publish_events(CampaignCreate)
  /\ dispatched = {}
  /\ probe \in [op : {"input"}, msg : MessageInputs, at : 0..MaxNow, result : {FALSE},
                 after : {[raised |-> FALSE, msg |-> NoMessage]}]
  /\ extra = NoExtra

\* the object after a method without side effects returned result
Queried(op, result) == [probe EXCEPT !.op = op, !.result = result]

\* the object after a state-changing method ended as `after`: [raised, msg]
Called(op, after) == [probe EXCEPT !.op = op, !.after = after]

CallShouldRetry ==
  /\ probe.op = "input"
  /\ probe' = Queried("should_retry", should_retry(probe.msg, probe.at))
  /\ UNCHANGED <<dvars, cvars, bq, workers, conn, saved_events, dispatched, extra>>

CallShouldFallbackToSms ==
  /\ probe.op = "input"
  /\ probe' = Queried("should_fallback_to_sms", should_fallback_to_sms(probe.msg))
  /\ UNCHANGED <<dvars, cvars, bq, workers, conn, saved_events, dispatched, extra>>

CallQueue ==
  /\ probe.op = "input"
  /\ probe' = Called("queue", msg_queue(probe.msg))
  /\ UNCHANGED <<dvars, cvars, bq, workers, conn, saved_events, dispatched, extra>>

CallMarkDelivered ==
  /\ probe.op = "input"
  /\ probe' = Called("mark_delivered", mark_delivered(probe.msg))
  /\ UNCHANGED <<dvars, cvars, bq, workers, conn, saved_events, dispatched, extra>>

CallMarkRead ==
  /\ probe.op = "input"
  /\ probe' = Called("mark_read", mark_read(probe.msg))
  /\ UNCHANGED <<dvars, cvars, bq, workers, conn, saved_events, dispatched, extra>>

ProbeNext ==
  \/ CallShouldRetry
  \/ CallShouldFallbackToSms
  \/ CallQueue
  \/ CallMarkDelivered
  \/ CallMarkRead

ProbeSpec == ProbeInit /\ [][ProbeNext]_vars

\* every campaign row, expanded by the orchestrator and its messages sent by
\* the dispatcher
FallbackSpec == OrchInit /\ [][StatNext]_vars

\* ------------------------------------------------------------ properties
Exists(m) == messages[m] # NoMessage

\* dispatch jobs in q for message m, over all delays
RECURSIVE JobCountOver(_, _, _)
JobCountOver(q, m, D) ==
  IF D = {} THEN 0
  ELSE LET d == CHOOSE x \in D : TRUE
       IN q[[message_id |-> m, delay |-> d]] + JobCountOver(q, m, D \ {d})
JobCount(q, m) == JobCountOver(q, m, Delays)

\* dispatch jobs for m that a step processing job j (acknowledged or not) put
\* into the queue, in all and with delay d
Enqueued(j, ack, m) ==
  JobCount(queue', m) - JobCount(queue, m) + (IF ack THEN 1 ELSE 0)
EnqueuedWithDelay(j, ack, m, d) ==
  queue'[[message_id |-> m, delay |-> d]] - queue[[message_id |-> m, delay |-> d]]
    + (IF ack /\ j.delay = d THEN 1 ELSE 0)

SendRequested(m) == requests'[m] # requests[m]

\* C1: retry_count never exceeds max_retries, also in the fallback worker's
\* copy, and a step that increments retry_count starts below max_retries
C1_RetryBounded ==
  /\ [](\A m \in MsgIds : Exists(m) => messages[m].retry_count <= messages[m].max_retries)
  /\ [](fb.pc = "send" => fb.msg.retry_count <= fb.msg.max_retries)
  /\ [][\A m \in MsgIds :
          Exists(m) /\ messages'[m].retry_count > messages[m].retry_count
            => /\ messages[m].retry_count < messages[m].max_retries
               /\ messages'[m].retry_count = messages[m].retry_count + 1]_vars

C1_Witness ==
  \E m \in MsgIds : Exists(m) /\ messages[m].retry_count = messages[m].max_retries

\* C2: a send that fails with an error other than the rate-limit signal marks
\* the message FAILED and then does exactly one of: retry (retry_count + 1,
\* one job), fallback (trigger_fallback, one job), nothing (stays FAILED)
C2_FailureBranches ==
  [][\A j \in Jobs, c \in BOOLEAN, a \in BOOLEAN,
        h \in {x \in HttpOutcomes : x.type \in {"rejected", "network"}} :
       Dispatch(j, c, h, a) =>
         LET m == j.message_id
             f == mark_failed(messages[m], "network_error")
         IN /\ SendRequested(m)
            /\ IF should_retry(f, now)
                 THEN /\ messages'[m] = [f EXCEPT !.retry_count = @ + 1]
                      /\ Enqueued(j, a, m) = 1
               ELSE IF should_fallback_to_sms(f)
                 THEN /\ messages'[m] = trigger_fallback(f).msg
                      /\ Enqueued(j, a, m) = 1
               ELSE /\ messages'[m] = f
                    /\ Enqueued(j, a, m) = 0]_vars

C2_Witness ==
  \E m \in MsgIds :
    /\ Exists(m) /\ messages[m].status = "failed" /\ messages[m].retry_count = 1
    /\ messages[m].channel = "rcs" /\ requests[m].rcs = 1 /\ sends[m] = 0
    /\ JobCount(queue, m) >= 1

\* C4: for an RCS message whose recipient is not RCS-capable the dispatcher
\* sends nothing, records RCS_NOT_SUPPORTED, does not increment retry_count
\* and hands the message to the SMS channel with one job
C4_NotCapableFallsBack ==
  [][\A j \in Jobs, a \in BOOLEAN, h \in HttpOutcomes :
       Dispatch(j, FALSE, h, a) /\ messages[j.message_id].channel = "rcs" =>
         LET m == j.message_id IN
         /\ ~SendRequested(m)
         /\ messages'[m].failure_reason = "rcs_not_supported"
         /\ messages'[m].retry_count <= messages[m].retry_count
         /\ messages'[m].channel = "sms"
         /\ messages'[m].status = "pending"
         /\ messages'[m].fallback_triggered
         /\ Enqueued(j, a, m) = 1]_vars

C4_Witness ==
  \E m \in MsgIds :
    /\ Exists(m) /\ messages[m].channel = "sms" /\ messages[m].status = "pending"
    /\ messages[m].failure_reason = "rcs_not_supported"
    /\ requests[m].rcs = 0 /\ JobCount(queue, m) >= 1

NonTerminal(m) == m.status \in {"pending", "queued", "sent", "delivered", "failed", "fallback_sent"}

\* C3: the dispatcher, given the retry job of a message that is FAILED with
\* retries left and not expired, sends it again, and a successful send makes
\* it SENT
C3_RetryIsReattempted ==
  [][\A j \in Jobs, c \in BOOLEAN, h \in HttpOutcomes, a \in BOOLEAN :
       /\ Dispatch(j, c, h, a)
       /\ messages[j.message_id].status = "failed"
       /\ should_retry(messages[j.message_id], now)
       /\ (messages[j.message_id].channel = "sms" \/ c)
       => /\ SendRequested(j.message_id)
          /\ h.type = "submitted" => messages'[j.message_id].status = "sent"]_vars

\* C5: on a rate-limit signal with vendor delay d the message's job is
\* requeued with delay d, the message is not marked FAILED and retry_count is
\* not incremented
C5_RateLimitRequeuesWithDelay ==
  [][\A j \in Jobs, c \in BOOLEAN, a \in BOOLEAN,
        h \in {x \in HttpOutcomes : x.type = "429"} :
       Dispatch(j, c, h, a) =>
         LET m == j.message_id IN
         /\ EnqueuedWithDelay(j, a, m, h.retry_after) = 1
         /\ messages'[m].status # "failed"
         /\ messages'[m].retry_count = messages[m].retry_count]_vars

\* C6: a send refused with a permanent error (invalid number, blocked) leaves
\* the message FAILED with that reason, not requeued and not fallen back
C6_PermanentErrorIsTerminal ==
  [][\A j \in Jobs, c \in BOOLEAN, a \in BOOLEAN,
        h \in {x \in HttpOutcomes : x.type = "rejected"
                                     /\ x.error_code \in {"INVALID_NUMBER", "BLOCKED"}} :
       Dispatch(j, c, h, a) =>
         LET m == j.message_id IN
         /\ messages'[m].status = "failed"
         /\ messages'[m].failure_reason \in {"invalid_number", "blocked"}
         /\ messages'[m].retry_count = messages[m].retry_count
         /\ messages'[m].channel = messages[m].channel
         /\ Enqueued(j, a, m) = 0]_vars

\* every Message aggregate over the modelled fields
AllMessages ==
  [status : Statuses, channel : Channels, retry_count : 0..DefaultMaxRetries,
   max_retries : {DefaultMaxRetries}, fallback_enabled : BOOLEAN,
   fallback_triggered : BOOLEAN, external_id : {NoId},
   failure_reason : {NoReason} \cup FailureReasons, expires_at : {0}]

TerminalMessage(m) ==
  \/ m.status \in {"read", "fallback_delivered"}
  \/ m.status = "failed" /\ ~should_retry(m, now) /\ ~should_fallback_to_sms(m)

\* C9: a message that is READ, FALLBACK_DELIVERED, or FAILED with neither
\* retry nor fallback available keeps its status in every later step
C9_TerminalStatesStay ==
  [][\A m \in MsgIds :
       Exists(m) /\ TerminalMessage(messages[m])
         => messages'[m].status = messages[m].status]_vars

\* C10: a worker that processes a non-terminal message after its expiry sets
\* it EXPIRED and does not send it
C10_ExpiredOnProcessing ==
  [][\A j \in Jobs, c \in BOOLEAN, h \in HttpOutcomes, a \in BOOLEAN :
       /\ Dispatch(j, c, h, a)
       /\ NonTerminal(messages[j.message_id])
       /\ ~TerminalMessage(messages[j.message_id])
       /\ is_expired(messages[j.message_id], now)
       => /\ messages'[j.message_id].status = "expired"
          /\ ~SendRequested(j.message_id)]_vars

\* C11: after the fallback was triggered a successful SMS send leaves the
\* message FALLBACK_SENT, whether the dispatcher or the fallback worker sends
\* it, and a 'delivered' update for its external id makes it
\* FALLBACK_DELIVERED
C11_FallbackSentThenDelivered ==
  [][/\ \A j \in Jobs, c \in BOOLEAN, a \in BOOLEAN,
          h \in {x \in HttpOutcomes : x.type = "submitted"} :
         /\ Dispatch(j, c, h, a)
         /\ messages[j.message_id].fallback_triggered
         /\ messages[j.message_id].status = "pending"
         => messages'[j.message_id].status = "fallback_sent"
     /\ \A h \in {x \in HttpOutcomes : x.type = "submitted"} :
         FallbackSend(h) => messages'[fb.id].status = "fallback_sent"
     /\ \A e \in IssuedIds, m \in MsgIds :
         /\ Webhook(e, "delivered")
         /\ Exists(m) /\ messages[m].external_id = e
         /\ messages[m].status = "fallback_sent"
         => messages'[m].status = "fallback_delivered"]_vars

\* a message has been handed to the aggregator or is durably terminal
Settled(m) ==
  \/ messages[m].status \in {"sent", "delivered", "read", "fallback_sent",
                             "fallback_delivered", "expired"}
  \/ TerminalMessage(messages[m])

\* C12: with the workers running and finitely many failures and crashes, every
\* message that was created eventually is SENT, FALLBACK_SENT or durably
\* terminal; none stays PENDING, QUEUED or retryable FAILED without a job
C12_NoMessageLost ==
  \A m \in MsgIds : [](Exists(m) => <>Settled(m))

\* C13: each handler failure up to the job's max_retries puts the job back on
\* its queue with the retry count increased by one, the failure after that
\* moves it to the dead-letter queue, and the consumer gets the job at most
\* max_retries + 1 times
C13_RetriesThenDeadLetter ==
  /\ [][\A k \in JobIds, x \in BOOLEAN :
          HandlerFails(k, x) =>
            IF bq[k].retry_count < bq[k].max_retries
              THEN /\ bq'[k].loc = "ready"
                   /\ bq'[k].retry_count = bq[k].retry_count + 1
              ELSE bq'[k].loc = "dlq"]_vars
  /\ [](\A k \in JobIds :
          bq[k].via = "subscribe" => bq[k].deliveries <= bq[k].max_retries + 1)

\* C14: a job leaves its queue only after its consumer has finished
\* processing it successfully
C14_RemovedOnlyAfterSuccess ==
  \A k \in JobIds : bq[k].loc = "acked" => bq[k].done

\* C15: what a worker changes for one job becomes durable in one commit at the
\* end of the job: a step of the orchestrator's handler that does not end the
\* job leaves the stored campaign and messages as they were
C15_SingleCommitPerJob ==
  [][(OrchActivate \/ OrchCreateMessages \/ OrchQueue) /\ orch'.pc # "idle"
       => campaign' = campaign /\ messages' = messages]_vars

\* C16: no two dispatcher handler runs work on the same message at the same
\* time
C16_OneInFlightJobPerMessage ==
  \A w1, w2 \in Workers :
    (w1 # w2 /\ workers[w1].pc # "idle" /\ workers[w2].pc # "idle")
      => workers[w1].job.message_id # workers[w2].job.message_id

\* C17: a dispatch job for a message that is already SENT, DELIVERED or READ
\* does nothing: no send, no job enqueued, status, channel, retry_count and
\* failure_reason unchanged
C17_DispatchOfSentIsNoOp ==
  [][\A j \in Jobs, c \in BOOLEAN, h \in HttpOutcomes, a \in BOOLEAN :
       /\ Dispatch(j, c, h, a)
       /\ messages[j.message_id].status \in {"sent", "delivered", "read"}
       => LET m == j.message_id IN
          /\ ~SendRequested(m)
          /\ Enqueued(j, a, m) = 0
          /\ messages'[m].status = messages[m].status
          /\ messages'[m].channel = messages[m].channel
          /\ messages'[m].retry_count = messages[m].retry_count
          /\ messages'[m].failure_reason = messages[m].failure_reason]_vars

\* C18: a recipient who is opted out when the message would be created gets
\* no Message and no dispatch job, whether through send_message,
\* send_message_batch or the campaign orchestrator
C18_OptedOutNeverEnters ==
  \A m \in opted_out : messages[m] = NoMessage /\ JobCount(queue, m) = 0

\* the edges of the campaign state machine and, for each method, the statuses
\* it may be called from
CampaignEdges ==
  {<<"draft", "scheduled">>, <<"draft", "active">>, <<"scheduled", "active">>,
   <<"active", "paused">>, <<"paused", "active">>,
   <<"active", "completed">>, <<"paused", "completed">>,
   <<"draft", "cancelled">>, <<"scheduled", "cancelled">>,
   <<"active", "cancelled">>, <<"paused", "cancelled">>}

\* every call of a state-changing method on aggregate c: [from, r]
CampaignCalls(c) ==
  {[from |-> {"draft"}, r |-> schedule(c, t, n)] : t \in 0..(MaxNow + 1), n \in 0..MaxNow}
    \cup {[from |-> {"draft", "scheduled"}, r |-> activate(c)],
          [from |-> {"active"}, r |-> pause(c)],
          [from |-> {"paused"}, r |-> resume(c)],
          [from |-> {"active", "paused"}, r |-> complete(c)],
          [from |-> {"draft", "scheduled", "active", "paused"}, r |-> cancel(c)]}

\* the aggregates the program holds: the one a service call loads from the
\* stored row, and the one the orchestrator's job works on
LiveAggregates ==
  {campaign_to_domain(CampaignModel)} \cup (IF orch.pc # "idle" THEN {orch.c} ELSE {})

\* C19: schedule, activate, pause, resume, complete and cancel change the
\* status of a campaign only along the edges of the state machine; called from
\* any other status they raise, and a call that raises leaves the status, the
\* metadata and the pending events as they were; a service call moves the
\* stored status along an edge or leaves it
C19_CampaignEdgesOnly ==
  /\ [](\A c \in LiveAggregates : \A call \in CampaignCalls(c) :
          /\ c.status \notin call.from => call.r.raised
          /\ call.r.raised => call.r.c = c
          /\ ~call.r.raised => <<c.status, call.r.c.status>> \in CampaignEdges)
  /\ [][(\/ \E t \in 0..(MaxNow + 1) : ScheduleCampaign(t)
         \/ ActivateCampaign \/ PauseCampaign \/ ResumeCampaign
         \/ CancelCampaign \/ CompleteCampaign)
        => \/ campaign'.status = campaign.status
           \/ <<campaign.status, campaign'.status>> \in CampaignEdges]_vars

\* a cancelled campaign, whose every method now raises
C19_Witness ==
  /\ campaign.status = "cancelled"
  /\ campaign.cancellation_reason = TRUE
  /\ \A call \in CampaignCalls(campaign_to_domain(CampaignModel)) : call.r.raised

\* C20: once the stored status of a campaign is COMPLETED or CANCELLED no step
\* of a service call or of an orchestrator job changes it
C20_TerminalStoredStatusStays ==
  [][campaign.status \in {"completed", "cancelled"}
       => campaign'.status = campaign.status]_vars

\* C21: activate succeeds only from DRAFT or SCHEDULED with at least one
\* recipient; with no recipient it raises and leaves the status and the
\* pending events as they were, and activate_campaign then saves nothing and
\* enqueues no orchestration job
C21_ActivateNeedsRecipients ==
  /\ [](\A c \in LiveAggregates :
          LET r == activate(c) IN
          /\ ~r.raised <=> (c.status \in {"draft", "scheduled"} /\ c.recipient_count > 0)
          /\ ~r.raised => r.c.status = "active"
          /\ r.raised => r.c = c)
  /\ [][ActivateCampaign
          => IF campaign.status \in {"draft", "scheduled"} /\ campaign.recipient_count > 0
               THEN /\ campaign'.status = "active"
                    /\ orch_jobs' = [orch_jobs EXCEPT ![now] = @ + 1]
               ELSE UNCHANGED <<campaign, orch_jobs>>]_vars

\* a scheduled campaign without recipients, whose activation raises
C21_Witness ==
  /\ campaign.status = "scheduled"
  /\ campaign.recipient_count = 0
  /\ activate(campaign_to_domain(CampaignModel)).raised

\* C22: schedule succeeds only from DRAFT with a time strictly later than now,
\* and then sets the status SCHEDULED and scheduled_for to that time; with a
\* time not later than now it raises and leaves status and scheduled_for as
\* they were, and schedule_campaign then saves nothing and enqueues no job
C22_ScheduleNeedsFutureTime ==
  /\ [](\A c \in LiveAggregates : \A at \in 0..(MaxNow + 1), t \in 0..MaxNow :
          LET r == schedule(c, at, t) IN
          /\ ~r.raised <=> (c.status = "draft" /\ at > t)
          /\ ~r.raised => r.c.status = "scheduled" /\ r.c.scheduled_for = at
          /\ r.raised => r.c = c)
  /\ [][\A at \in 0..MaxNow :
          ScheduleCampaign(at)
          => IF campaign.status = "draft" /\ at > now
               THEN /\ campaign'.status = "scheduled"
                    /\ campaign'.scheduled_for = at
                    /\ \E t \in 0..MaxNow : orch_jobs' = [orch_jobs EXCEPT ![t] = @ + 1]
               ELSE UNCHANGED <<campaign, orch_jobs>>]_vars

\* a draft campaign at a time when the requested schedule time has passed
C22_Witness ==
  /\ campaign.status = "draft"
  /\ campaign.scheduled_for = NoTime
  /\ now = MaxNow
  /\ schedule(campaign_to_domain(CampaignModel), now, now).raised
  /\ \A t \in 0..MaxNow : orch_jobs[t] = 0

\* the sum of the counts of a set of attached audiences
RECURSIVE SumCounts(_)
SumCounts(as) ==
  IF as = {} THEN 0
  ELSE LET a == CHOOSE x \in as : TRUE IN a.count + SumCounts(as \ {a})

\* C23: add_audience is idempotent per audience id: while the campaign is a
\* draft its recipient_count is the sum of the counts of the distinct
\* audiences attached to it
C23_RecipientCountIsSumOfAudiences ==
  campaign.status = "draft" => campaign.recipient_count = SumCounts(attached)

RECURSIVE TotalSends(_, _)
TotalSends(f, ms) ==
  IF ms = {} THEN 0
  ELSE LET m == CHOOSE x \in ms : TRUE IN f[m] + TotalSends(f, ms \ {m})

\* C25: messages_sent counts the send attempts: a step in which the
\* aggregator accepts a send, for whichever worker, adds exactly 1 to it, and
\* no other step changes it
C25_MessagesSentCountsSends ==
  [][stats'.messages_sent - stats.messages_sent
       = TotalSends(sends', MsgIds) - TotalSends(sends, MsgIds)]_vars

\* message m is FAILED for good: no dispatch job is left for it and the
\* fallback worker is not working on it
TerminallyFailed(m) ==
  /\ messages[m].status = "failed"
  /\ JobCount(queue, m) = 0
  /\ ~(fb.pc = "send" /\ fb.id = m)

\* C26: the step that commits a trigger_fallback for a message adds 1 to the
\* campaign's fallback_triggered, and the step that leaves a message FAILED
\* with no retry and no fallback adds 1 to the campaign's messages_failed
C26_FailuresAreCounted ==
  [][\A m \in MsgIds :
       /\ fallback_count'[m] > fallback_count[m]
            => stats'.fallback_triggered = stats.fallback_triggered + 1
       /\ (~TerminallyFailed(m) /\ TerminallyFailed(m)')
            => stats'.messages_failed = stats.messages_failed + 1]_vars

\* C27: while the stored status of the campaign is PAUSED or CANCELLED the
\* orchestrator creates no messages and enqueues no dispatch jobs
C27_NoBatchesAfterPauseOrCancel ==
  [][(OrchCreateMessages \/ OrchQueue) /\ campaign.status \in {"paused", "cancelled"}
       => messages' = messages /\ queue' = queue]_vars

\* C28: an orchestration job does nothing unless the campaign is SCHEDULED and
\* due, or ACTIVE; for an ACTIVE campaign, whatever its scheduled_for, and for
\* a due SCHEDULED campaign it goes on towards the creation of the messages
C28_ExecutesWhenDueOrActive ==
  [][\A t \in 0..MaxNow :
       OrchLoad(t)
       => /\ UNCHANGED <<messages, queue, campaign, stats>>
          /\ IF \/ campaign.status = "active"
                \/ campaign.status = "scheduled" /\ campaign.scheduled_for <= now
               THEN orch'.pc = "loaded"
               ELSE orch' = orch]_vars

\* C29: a 'failed' status update takes the decision of a send failure: the
\* message is marked FAILED, then retried (retry_count incremented, requeued)
\* if should_retry, else sent to fallback if should_fallback_to_sms, else left
\* FAILED
C29_FailedUpdateDecidesAsSendFailure ==
  [][\A e \in MsgIds \X (1..MaxSendsPerMessage) :
       Webhook(e, "failed") /\ get_by_external_id(e) # {}
       => LET m == CHOOSE x \in get_by_external_id(e) : TRUE
              d == handle_delivery_failure(to_domain(messages[m]), now, FALSE)
          IN /\ messages'[m] = update_from_domain(messages[m], d.message)
             /\ JobCount(queue', m) - JobCount(queue, m) = Len(d.delays)]_vars

\* C30: a webhook job whose signature is invalid, or whose external id
\* matches no message, changes no message and no campaign state and is
\* acknowledged, not rejected and not requeued
C30_BadWebhookIsDropped ==
  [][\A k \in {HookJob}, e \in MsgIds \X (1..MaxSendsPerMessage),
        s \in {"delivered", "read", "failed"}, v \in BOOLEAN, x \in BOOLEAN :
       WebhookJob(k, e, s, v, x) /\ (~v \/ get_by_external_id(e) = {})
       => /\ UNCHANGED <<messages, queue, stats, fallback_count, campaign>>
          /\ bq'[k].loc = "acked"]_vars

\* a webhook job was handled and acknowledged although no message carries an
\* external id
C30_Witness ==
  /\ \E k \in JobIds : bq[k].loc = "acked" /\ bq[k].done
  /\ \A m \in MsgIds : messages[m] = NoMessage \/ messages[m].external_id = <<0, 0>>

\* C31: connect() makes at most 5 attempts, sleeps 2*2^(k-1) seconds after its
\* k-th failed attempt (2, 4, 8, 16), returns at its first successful attempt,
\* raises only after the 5th consecutive failure, and always ends
C31_ConnectBackoffTerminates ==
  /\ [](\A a \in Adapters :
         LET c == conn[a] IN
         /\ c.attempts <= 5
         /\ \A k \in 1..Len(c.slept) : c.slept[k] = 2 * Pow2(k - 1)
         /\ c.pc = "loop" => c.attempts < 5 /\ Len(c.slept) = c.attempts
         /\ c.pc = "connected" => Len(c.slept) = c.attempts - 1
         /\ c.pc = "raised" => c.attempts = 5 /\ c.slept = <<2, 4, 8, 16>>
         /\ c.pc # "returned")
  /\ \A a \in Adapters : conn[a].pc = "loop" ~> conn[a].pc \in {"connected", "raised"}

C31_Witness ==
  \E a, b \in Adapters :
    /\ conn[a].pc = "raised" /\ conn[a].slept = <<2, 4, 8, 16>>
    /\ conn[b].pc = "connected" /\ conn[b].attempts = 3

\* C32: enqueue_batch is atomic as a set: when the enqueue of any job of the
\* batch fails no job of the batch becomes visible to the consumers, otherwise
\* all do and the returned ids are the jobs' ids in input order
C32_EnqueueBatchAtomic ==
  [][\A b \in Batches, f \in 0..MaxBatch :
       EnqueueBatch(b, f) =>
         LET r == enqueue_batch(queue, b, f) IN
         IF r.raised THEN queue' = queue
         ELSE /\ r.job_ids = b
              /\ \A j \in Jobs :
                   queue'[j] = queue[j] + Cardinality({i \in DOMAIN b : b[i] = j})]_vars

\* C33: every campaign status transition committed to storage, by a service
\* call or by the orchestrator activating a scheduled campaign, appended exactly
\* one event that the same transaction wrote to the event store, and left the
\* aggregate's buffer empty; a call whose transition fails appends nothing and
\* stores no event
C33_TransitionStoresItsEvent ==
  /\ [](\A c \in LiveAggregates : \A call \in CampaignCalls(c) :
          IF call.r.raised THEN call.r.c.events = c.events
                           ELSE call.r.c.events = c.events + 1)
  /\ [][((campaign'.status # campaign.status)
           => (saved_events' = 1 /\ (orch' # orch => orch'.c.events = 0)))
        /\ ((saved_events' # saved_events /\ campaign'.status = campaign.status)
           => (saved_events' = 0))]_vars

\* C34: when process_campaign_job completes, every Message it created is
\* persisted, exactly one dispatch job was enqueued per created Message, under
\* the message's id and at the campaign's priority (low=1, medium=5, high=10,
\* urgent=20), and recipient_count is the number of Messages created
C34_JobCompletesWithOneDispatchEach ==
  [][OrchFinal =>
       LET level == [low |-> 1, medium |-> 5, high |-> 10, urgent |-> 20] IN
       /\ \A m \in orch.batch :
            /\ messages'[m] # NoMessage
            /\ JobCount(queue', m) = 1
            /\ {d \in dispatched' : d.id = m}
                 = {[id |-> m, priority |-> level[campaign'.priority]]}
       /\ \A r \in orch.again : extra'[r].rows >= 1 /\ extra'[r].jobs >= 1
       /\ orch.enqueued = orch.batch \cup orch.again
       /\ campaign'.recipient_count
            = Cardinality(orch.batch) + Cardinality(orch.again)]_vars

\* a completed job of an urgent campaign
C34_Witness ==
  /\ orch.pc = "idle" /\ crashes = 0
  /\ campaign.priority = "urgent"
  /\ dispatched = {[id |-> 1, priority |-> 20]}
  /\ campaign.recipient_count = 1

\* C35: for every status, retry_count, max_retries, expiry and failure_reason,
\* should_retry() is true exactly when the status is FAILED, retry_count <
\* max_retries, the message is not expired and the failure_reason is neither
\* INVALID_NUMBER nor BLOCKED
C35_ShouldRetryIff ==
  probe.op = "should_retry" =>
    (probe.result <=> /\ probe.msg.status = "failed"
                      /\ probe.msg.retry_count < probe.msg.max_retries
                      /\ ~(probe.at > probe.msg.expires_at)
                      /\ probe.msg.failure_reason \notin {"invalid_number", "blocked"})

\* a failed message with retries left and its day not over, which is retried
C35_Witness ==
  /\ probe.op = "should_retry" /\ probe.result
  /\ probe.msg.retry_count = 0 /\ probe.msg.max_retries = 1
  /\ probe.msg.failure_reason = "network_error"

\* C36: for every fallback_enabled, fallback_triggered, channel, failure_reason,
\* retry_count and max_retries, should_fallback_to_sms() is true exactly when
\* fallback is enabled, not yet triggered, the channel is not SMS, and the
\* failure_reason is RCS_NOT_SUPPORTED or retry_count >= max_retries
C36_ShouldFallbackIff ==
  probe.op = "should_fallback_to_sms" =>
    (probe.result <=> /\ probe.msg.fallback_enabled
                      /\ ~probe.msg.fallback_triggered
                      /\ probe.msg.channel # "sms"
                      /\ \/ probe.msg.failure_reason = "rcs_not_supported"
                         \/ probe.msg.retry_count >= probe.msg.max_retries)

\* an RCS message that falls back on RCS_NOT_SUPPORTED with retries left
C36_Witness ==
  /\ probe.op = "should_fallback_to_sms" /\ probe.result
  /\ probe.msg.failure_reason = "rcs_not_supported"
  /\ probe.msg.retry_count < probe.msg.max_retries

\* C37: queue() succeeds only from PENDING, mark_delivered() only from SENT or
\* QUEUED, mark_read() only from DELIVERED on RCS; from every other status each
\* raises and leaves the message as it was, and mark_read() on an SMS message
\* changes nothing and does not raise
C37_GuardedMessageTransitions ==
  LET m == probe.msg
      r == probe.after
      same == r.msg = m
  IN
  /\ probe.op = "queue" =>
       IF m.status = "pending"
         THEN ~r.raised /\ r.msg = [m EXCEPT !.status = "queued"]
         ELSE r.raised /\ same
  /\ probe.op = "mark_delivered" =>
       IF m.status \in {"sent", "queued"}
         THEN ~r.raised /\ r.msg = [m EXCEPT !.status = "delivered"]
         ELSE r.raised /\ same
  /\ probe.op = "mark_read" =>
       IF m.channel = "sms" THEN ~r.raised /\ same
       ELSE IF m.status = "delivered"
         THEN ~r.raised /\ r.msg = [m EXCEPT !.status = "read"]
         ELSE r.raised /\ same

\* mark_read() called on a delivered SMS message
C37_Witness ==
  /\ probe.op = "mark_read"
  /\ probe.msg.channel = "sms" /\ probe.msg.status = "delivered"
  /\ ~probe.after.raised

\* C38: campaign expansion is idempotent: when the orchestration job of a
\* campaign is processed more than once (redelivered after a failure, or the
\* delayed schedule job and an activation job both run), each recipient still
\* has at most one Message and one dispatch job of the campaign
C38_ExpansionIdempotent ==
  \A r \in MsgIds : extra[r].rows = 0 /\ extra[r].jobs = 0

C40_DuplicateStatusUpdateIsHarmless ==
  [][\A k \in JobIds, e \in MsgIds \X (1..MaxSendsPerMessage),
        s \in {"delivered", "read"}, x \in BOOLEAN :
       (/\ WebhookJob(k, e, s, TRUE, x)
        /\ \E m \in get_by_external_id(e) : messages[m].status = s)
       => /\ UNCHANGED <<messages, stats>>
          /\ bq'[k].loc = "acked"]_vars

====
